---- MODULE Spec2Model ----
(***************************************************************************)
(* A model of src/app.py, the Stock Sentiment Agent script.                *)
(*                                                                         *)
(* One run of the script is one behaviour: the sidebar builds the          *)
(* selection, the comparison section (more than one ticker) shows one      *)
(* metric and one normalized trace per ticker, and the deep-dive section   *)
(* builds one tab per ticker (fundamentals, sentiment, price chart).       *)
(*                                                                         *)
(* Numbers.  Prices are integers in cents.  Polarities are integers in     *)
(* hundredths.  A quotient the script computes in floating point is kept   *)
(* as an exact fraction [n, d] with d > 0, so floating-point rounding      *)
(* error of sums and quotients is not modelled.  Market cap and volume are *)
(* integers beyond the 32-bit integers of TLC and are kept as sign, hi, lo *)
(* with magnitude hi * 10^6 + lo.                                          *)
(***************************************************************************)
EXTENDS Integers, Sequences, FiniteSets, TLC

VARIABLES
    provider,          \* what yfinance returns for each ticker (fixed during a run)
    multiselect,       \* st.multiselect result, before the custom ticker
    custom_ticker,     \* st.text_input result
    selected_tickers,  \* the selection the script iterates over
    data,              \* data[ticker] = yf.Ticker(ticker)
    pc,                \* position of the script
    idx,               \* index of the current ticker in the running loop
    metrics,           \* comparison st.metric shown per ticker
    fig,               \* traces added to the comparison figure
    tabs,              \* deep-dive tab content per ticker
    total_polarity,    \* running total of the current tab
    analyzed_news,     \* scored items of the current tab
    avg_polarity,      \* average of the current tab
    k,                 \* index of the news item being scored
    error              \* the exception that ended the run, if any

vars == <<provider, multiselect, custom_ticker, selected_tickers, data, pc, idx,
          metrics, fig, tabs, total_polarity, analyzed_news, avg_polarity, k, error>>

----------------------------------------------------------------------------
(* Bounds of the model *)

MaxTickers == 2

MaxNews == 3

MaxLongNews == 6

MaxHist == 3

----------------------------------------------------------------------------
(* Program constants *)

DisplayLimit == 5

Million == 1000000

----------------------------------------------------------------------------
(* Values *)

None == [none |-> TRUE]

IsNone(x) == "none" \in DOMAIN x

\* an exact fraction n / d, d > 0
Frac(n, d) == IF d < 0 THEN [n |-> -n, d |-> -d] ELSE [n |-> n, d |-> d]

Zero == [n |-> 0, d |-> 1]

\* a polarity in hundredths as a fraction
Pol(p) == [n |-> p, d |-> 100]

\* big integers: sign and magnitude hi * 10^6 + lo, 0 <= lo < 10^6
Big(neg, hi, lo) == [neg |-> neg, hi |-> hi, lo |-> lo]

\* dict.get(key, default)
Get(info, key, default) == IF key \in DOMAIN info THEN info[key] ELSE default

Min(a, b) == IF a < b THEN a ELSE b

----------------------------------------------------------------------------
(* Helper functions, src/app.py:30-45 *)

\* score > 0.1 and score < -0.1 on an exact fraction
AboveBullish(score) == 10 * score.n > score.d

BelowBearish(score) == 10 * score.n < -score.d

get_sentiment_color_ge(score) ==
    IF 10 * score.n >= score.d THEN "green"
    ELSE IF BelowBearish(score) THEN "red"
    ELSE "orange"

get_sentiment_color(score) ==
    IF AboveBullish(score) THEN "green"
    ELSE IF BelowBearish(score) THEN "red"
    ELSE "orange"

get_sentiment_label(score) ==
    IF AboveBullish(score) THEN "BULLISH"
    ELSE IF BelowBearish(score) THEN "BEARISH"
    ELSE "NEUTRAL"

\* the conditional expression of line 170
p_emoji(p_score) ==
    IF AboveBullish(p_score) THEN "green_circle"
    ELSE IF BelowBearish(p_score) THEN "red_circle"
    ELSE "yellow_circle"

\* two decimal digits of a count of hundredths
TwoDigits(h) ==
    IF h % 100 < 10 THEN "0" \o ToString(h % 100) ELSE ToString(h % 100)

\* f"{x:.2f}" of the magnitude h / 100 with its sign
Fixed2(neg, h) ==
    (IF neg THEN "-" ELSE "") \o ToString(h \div 100) \o "." \o TwoDigits(h)

\* q + r / m rounded to an integer, r / m compared with one half.  A tie is
\* decided in Python by the binary value of the quotient; it is rounded to
\* even here.
RoundAt(q, above, tie) ==
    IF above \/ (tie /\ q % 2 = 1) THEN q + 1 ELSE q

\* hundredths of num / 10^12
HundredthsT(num) ==
    LET q  == num.hi \div 10000
        rh == num.hi % 10000
    IN  RoundAt(q, rh > 5000 \/ (rh = 5000 /\ num.lo > 0), rh = 5000 /\ num.lo = 0)

\* hundredths of num / 10^9
HundredthsB(num) ==
    LET q == num.hi \div 10
        r == (num.hi % 10) * Million + num.lo
    IN  RoundAt(q, r > 5 * Million, r = 5 * Million)

\* hundredths of num / 10^6
HundredthsM(num) ==
    LET q == num.hi * 100 + num.lo \div 10000
        r == num.lo % 10000
    IN  RoundAt(q, r > 5000, r = 5000)

Pad6(lo) ==
    (IF lo < 10 THEN "00000"
     ELSE IF lo < 100 THEN "0000"
     ELSE IF lo < 1000 THEN "000"
     ELSE IF lo < 10000 THEN "00"
     ELSE IF lo < 100000 THEN "0"
     ELSE "") \o ToString(lo)

\* f"{num:.2f}" of an integer
Plain(num) ==
    (IF num.neg THEN "-" ELSE "")
    \o (IF num.hi = 0 THEN ToString(num.lo) ELSE ToString(num.hi) \o Pad6(num.lo))
    \o ".00"

\* num >= 10^12, num >= 10^9, num >= 10^6 on the signed value: hi counts millions
GeTrillion(num) == ~num.neg /\ num.hi >= Million

GeBillion(num) == ~num.neg /\ num.hi >= 1000

GeMillion(num) == ~num.neg /\ num.hi >= 1

format_large_number_gt(num) ==
    IF IsNone(num) THEN "N/A"
    ELSE IF GeTrillion(num) THEN "$" \o Fixed2(FALSE, HundredthsT(num)) \o "T"
    ELSE IF ~num.neg /\ (num.hi > 1000 \/ (num.hi = 1000 /\ num.lo > 0))
         THEN "$" \o Fixed2(FALSE, HundredthsB(num)) \o "B"
    ELSE IF GeMillion(num) THEN "$" \o Fixed2(FALSE, HundredthsM(num)) \o "M"
    ELSE "$" \o Plain(num)

format_large_number(num) ==
    IF IsNone(num) THEN "N/A"
    ELSE IF GeTrillion(num) THEN "$" \o Fixed2(FALSE, HundredthsT(num)) \o "T"
    ELSE IF GeBillion(num) THEN "$" \o Fixed2(FALSE, HundredthsB(num)) \o "B"
    ELSE IF GeMillion(num) THEN "$" \o Fixed2(FALSE, HundredthsM(num)) \o "M"
    ELSE "$" \o Plain(num)

----------------------------------------------------------------------------
(* Comparison section, src/app.py:88-112 *)

\* hundredths of the magnitude of a fraction (for f"{x:.2f}")
Hundredths(x) ==
    LET a == IF x.n < 0 THEN -x.n ELSE x.n
        q == (a * 100) \div x.d
        r == (a * 100) % x.d
    IN  RoundAt(q, 2 * r > x.d, 2 * r = x.d)

current_price_regular_first(info) ==
    Get(info, "regularMarketPrice", Get(info, "currentPrice", 0))

current_price(info) ==
    Get(info, "currentPrice", Get(info, "regularMarketPrice", 0))

previous_close(info) == Get(info, "previousClose", current_price(info))

delta(info) == current_price(info) - previous_close(info)

delta_percent(info) ==
    IF previous_close(info) # 0
    THEN Frac(delta(info) * 100, previous_close(info))
    ELSE Zero

\* the arguments of st.metric, with the values they are formatted from
Metric(ticker, info) ==
    [label          |-> ticker,
     current_price  |-> current_price(info),
     previous_close |-> previous_close(info),
     delta          |-> delta(info),
     delta_percent  |-> delta_percent(info),
     value          |-> "$" \o Fixed2(current_price(info) < 0,
                                      IF current_price(info) < 0
                                      THEN -current_price(info)
                                      ELSE current_price(info)),
     delta_text     |-> Fixed2(delta_percent(info).n < 0,
                               Hundredths(delta_percent(info))) \o "%"]

NaN == [nan |-> TRUE]

Inf == [inf |-> TRUE]

\* (close - start_price) / start_price * 100 in float64: a zero divisor
\* raises nothing and gives inf, or nan for 0 / 0
PercentChange(close, start_price) ==
    IF start_price = 0
    THEN IF close = 0 THEN NaN ELSE Inf
    ELSE Frac((close - start_price) * 100, start_price)

normalized_close_chained(hist) ==
    [i \in 1..Len(hist) |->
        PercentChange(hist[i], hist[IF i = 1 THEN 1 ELSE i - 1])]

normalized_close(hist) ==
    [i \in 1..Len(hist) |-> PercentChange(hist[i], hist[1])]

Trace(ticker, hist) ==
    [name |-> ticker, x |-> [i \in 1..Len(hist) |-> i], y |-> normalized_close(hist)]

----------------------------------------------------------------------------
(* Inputs: the widgets and what the provider returns *)

TickerNames == <<"TSLA", "AAPL", "MSFT", "NVDA", "AMD">>

Tickers == {TickerNames[i] : i \in 1..MaxTickers}

\* str.upper() on the texts typed in the box
Upper(s) ==
    CASE s = "coin" -> "COIN"
      [] s = "tsla" -> "TSLA"
      [] OTHER -> s

CustomInputs == {"", "coin", "tsla"}

AllTickers == Tickers \cup {Upper(c) : c \in CustomInputs \ {""}}

SeqsUpTo(S, n) == UNION {[1..m -> S] : m \in 0..n}

DistinctSeqs(S, n) ==
    {s \in SeqsUpTo(S, n) : \A i, j \in 1..Len(s) : i # j => s[i] # s[j]}

\* polarities TextBlob may return, in hundredths; the facility is outside the
\* script, and values beyond [-100, 100] stand for a result out of range
Polarities == {-150, -40, -10, 0, 10, 15, 60, 150}

CorePolarities == {-40, 0, 60}

NewsInputs ==
    {None}
    \cup {[items |-> s] : s \in SeqsUpTo(Polarities, MaxNews)}
    \cup {[items |-> s] : s \in SeqsUpTo(CorePolarities, MaxLongNews)}

Prices == {0, 995, 1000, 1234}

QuoteKeys == {"currentPrice", "regularMarketPrice", "previousClose"}

Closes == {0, 800, 1000, 1250}

HistInputs == SeqsUpTo(Closes, MaxHist)

Magnitudes ==
    {<<0, 0>>, <<0, 999>>, <<0, 999999>>, <<1, 0>>, <<1, 234567>>, <<45, 678900>>,
     <<999, 994999>>, <<999, 999999>>, <<1000, 0>>, <<1000, 1>>, <<1500, 0>>,
     <<2000, 0>>, <<999999, 999999>>, <<1000000, 0>>, <<1000000, 1>>,
     <<2500000, 0>>, <<2000000, 123456>>}

FormatInputs ==
    {None}
    \cup {Big(FALSE, m[1], m[2]) : m \in Magnitudes}
    \cup {Big(TRUE, m[1], m[2]) : m \in Magnitudes \ {<<0, 0>>}}

Fundamentals ==
    [marketCap |-> Big(FALSE, 2500000, 0), trailingPE |-> 28,
     fiftyTwoWeekHigh |-> 1200, volume |-> Big(FALSE, 45, 678900)]

DefaultInfo ==
    [f \in DOMAIN Fundamentals \cup {"currentPrice", "previousClose"} |->
        IF f = "currentPrice" THEN 1050
        ELSE IF f = "previousClose" THEN 1000
        ELSE Fundamentals[f]]

DefaultData ==
    [fail |-> "none", info |-> DefaultInfo,
     news |-> [items |-> <<60, -40>>], hist |-> <<1000, 1050>>]

DefaultProvider == [t \in AllTickers |-> DefaultData]

\* the accesses of the script that go to the provider
Accesses == {"info", "news", "history"}

\* a mapping with the given keys present
Restrict(f, keys) == [x \in keys |-> f[x]]

\* the quote mappings: any subset of the three price keys, any prices
QuoteInputs ==
    UNION {[keys -> Prices] : keys \in SUBSET QuoteKeys}

WithQuote(q) ==
    [f \in DOMAIN Fundamentals \cup DOMAIN q |->
        IF f \in DOMAIN q THEN q[f] ELSE Fundamentals[f]]

\* any selection, any text in the box, at most one ticker failing
InitApp ==
    /\ multiselect \in DistinctSeqs(Tickers, MaxTickers)
    /\ custom_ticker \in CustomInputs
    /\ provider \in {DefaultProvider}
         \cup {[DefaultProvider EXCEPT ![t].fail = a] : t \in AllTickers, a \in Accesses}

\* one ticker, any news list
InitSentiment ==
    /\ multiselect = <<"TSLA">>
    /\ custom_ticker = ""
    /\ provider \in {[DefaultProvider EXCEPT !["TSLA"].news = n] : n \in NewsInputs}

\* two tickers, any quote mapping or any history for the first
InitCompare ==
    /\ multiselect = <<"TSLA", "AAPL">>
    /\ custom_ticker = ""
    /\ provider \in
         {[DefaultProvider EXCEPT !["TSLA"].info = WithQuote(q)] : q \in QuoteInputs}
         \cup {[DefaultProvider EXCEPT !["TSLA"].hist = h] : h \in HistInputs}

\* one ticker, any market cap or any volume (a key may be missing)
InitFormat ==
    /\ multiselect = <<"TSLA">>
    /\ custom_ticker = ""
    /\ provider \in
         {[DefaultProvider EXCEPT !["TSLA"].info =
              [DefaultInfo EXCEPT !.marketCap = n]] : n \in FormatInputs}
         \cup {[DefaultProvider EXCEPT !["TSLA"].info =
              [DefaultInfo EXCEPT !.volume = n]] : n \in FormatInputs}
         \cup {[DefaultProvider EXCEPT !["TSLA"].info =
              Restrict(DefaultInfo, DOMAIN DefaultInfo \ {key})] :
                  key \in {"marketCap", "volume", "trailingPE", "fiftyTwoWeekHigh"}}

NoError == [ticker |-> "", access |-> ""]

Init ==
    /\ (InitApp \/ InitSentiment \/ InitCompare \/ InitFormat)
    /\ selected_tickers = multiselect
    /\ data = [t \in AllTickers |-> None]
    /\ pc = "sidebar"
    /\ idx = 0
    /\ metrics = [t \in AllTickers |-> None]
    /\ fig = <<>>
    /\ tabs = [t \in AllTickers |-> None]
    /\ total_polarity = 0
    /\ analyzed_news = <<>>
    /\ avg_polarity = Zero
    /\ k = 0
    /\ error = NoError

----------------------------------------------------------------------------
(* The script *)

Range(s) == {s[i] : i \in 1..Len(s)}

ticker == selected_tickers[idx]

\* an exception nothing catches ends the run
Raise(t, access) ==
    /\ pc' = "crashed"
    /\ error' = [ticker |-> t, access |-> access]

\* lines 60-75: the custom ticker joins the selection; an empty selection stops
Sidebar ==
    /\ pc = "sidebar"
    /\ custom_ticker' = Upper(custom_ticker)
    /\ selected_tickers' =
         IF custom_ticker # "" /\ Upper(custom_ticker) \notin Range(selected_tickers)
         THEN Append(selected_tickers, Upper(custom_ticker))
         ELSE selected_tickers
    /\ pc' = IF selected_tickers' = <<>> THEN "stopped" ELSE "fetch"
    /\ UNCHANGED <<provider, multiselect, data, idx, metrics, fig, tabs,
                   total_polarity, analyzed_news, avg_polarity, k, error>>

\* lines 78-83: one handle per ticker, then the mode
FetchData ==
    /\ pc = "fetch"
    /\ data' = [t \in AllTickers |->
                   IF t \in Range(selected_tickers) THEN [symbol |-> t] ELSE None]
    /\ pc' = IF Len(selected_tickers) > 1 THEN "metrics" ELSE "tab"
    /\ idx' = 1
    /\ UNCHANGED <<provider, multiselect, custom_ticker, selected_tickers, metrics,
                   fig, tabs, total_polarity, analyzed_news, avg_polarity, k, error>>

\* lines 88-101: one iteration of the metrics loop
CompareMetrics ==
    /\ pc = "metrics"
    /\ IF provider[ticker].fail = "info"
       THEN /\ Raise(ticker, "info")
            /\ UNCHANGED <<metrics, idx>>
       ELSE /\ metrics' = [metrics EXCEPT ![ticker] = Metric(ticker, provider[ticker].info)]
            /\ IF idx = Len(selected_tickers)
               THEN pc' = "chart" /\ idx' = 1
               ELSE pc' = pc /\ idx' = idx + 1
            /\ UNCHANGED error
    /\ UNCHANGED <<provider, multiselect, custom_ticker, selected_tickers, data,
                   fig, tabs, total_polarity, analyzed_news, avg_polarity, k>>

\* lines 106-119: one iteration of the chart loop; the figure is shown after the last
CompareChart ==
    /\ pc = "chart"
    /\ IF provider[ticker].fail = "history"
       THEN /\ Raise(ticker, "history")
            /\ UNCHANGED <<fig, idx>>
       ELSE /\ fig' = IF provider[ticker].hist # <<>>
                      THEN Append(fig, Trace(ticker, provider[ticker].hist))
                      ELSE fig
            /\ IF idx = Len(selected_tickers)
               THEN pc' = "tab" /\ idx' = 1
               ELSE pc' = pc /\ idx' = idx + 1
            /\ UNCHANGED error
    /\ UNCHANGED <<provider, multiselect, custom_ticker, selected_tickers, data,
                   metrics, tabs, total_polarity, analyzed_news, avg_polarity, k>>

\* lines 129-137: the four fundamentals of a tab
DeepFundamentals ==
    /\ pc = "tab"
    /\ IF provider[ticker].fail = "info"
       THEN /\ Raise(ticker, "info")
            /\ UNCHANGED tabs
       ELSE LET info == provider[ticker].info
            IN  /\ tabs' = [tabs EXCEPT ![ticker] =
                     [market_cap  |-> format_large_number(Get(info, "marketCap", None)),
                      pe_ratio    |-> IF "trailingPE" \in DOMAIN info
                                      THEN ToString(info["trailingPE"]) ELSE "N/A",
                      high        |-> "$" \o Fixed2(FALSE, Get(info, "fiftyTwoWeekHigh", 0)),
                      volume      |-> format_large_number(Get(info, "volume", None)),
                      label       |-> "",
                      progress    |-> FALSE,
                      rows        |-> <<>>,
                      candlestick |-> FALSE]]
                /\ pc' = "news"
                /\ UNCHANGED error
    /\ UNCHANGED <<provider, multiselect, custom_ticker, selected_tickers, data, idx,
                   metrics, fig, total_polarity, analyzed_news, avg_polarity, k>>

\* if news:
Truthy(news) == ~IsNone(news) /\ news.items # <<>>

\* lines 140-144 and 157-158
DeepNews ==
    /\ pc = "news"
    /\ IF provider[ticker].fail = "news"
       THEN /\ Raise(ticker, "news")
            /\ UNCHANGED <<total_polarity, analyzed_news, avg_polarity, k>>
       ELSE /\ total_polarity' = 0
            /\ analyzed_news' = <<>>
            /\ IF Truthy(provider[ticker].news)
               THEN pc' = "score" /\ k' = 1 /\ UNCHANGED avg_polarity
               ELSE pc' = "sentiment" /\ avg_polarity' = Zero /\ UNCHANGED k
            /\ UNCHANGED error
    /\ UNCHANGED <<provider, multiselect, custom_ticker, selected_tickers, data, idx,
                   metrics, fig, tabs>>

\* lines 145-154: one iteration of the scoring loop.  An item of the news list is
\* the polarity TextBlob gives its title; item |-> k stands for its title, link
\* and publisher.
ScoreItem ==
    /\ pc = "score"
    /\ LET polarity == provider[ticker].news.items[k]
       IN  /\ total_polarity' = total_polarity + polarity
           /\ analyzed_news' = Append(analyzed_news, [item |-> k, polarity |-> polarity])
    /\ IF k = Len(provider[ticker].news.items)
       THEN pc' = "average" /\ k' = k
       ELSE pc' = pc /\ k' = k + 1
    /\ UNCHANGED <<provider, multiselect, custom_ticker, selected_tickers, data, idx,
                   metrics, fig, tabs, avg_polarity, error>>

average_fixed(total, news) == Frac(total, 100 * DisplayLimit)

\* total_polarity / len(news), the total in hundredths
average(total, news) == Frac(total, 100 * Len(news))

\* line 156
ComputeAverage ==
    /\ pc = "average"
    /\ avg_polarity' = average(total_polarity, provider[ticker].news.items)
    /\ pc' = "sentiment"
    /\ UNCHANGED <<provider, multiselect, custom_ticker, selected_tickers, data, idx,
                   metrics, fig, tabs, total_polarity, analyzed_news, k, error>>

displayed_all(news) == news

\* analyzed_news[:5]
displayed(news) == SubSeq(news, 1, Min(DisplayLimit, Len(news)))

Row(item) ==
    [emoji   |-> p_emoji(Pol(item.polarity)),
     item    |-> item.item,
     caption |-> Fixed2(item.polarity < 0,
                        IF item.polarity < 0 THEN -item.polarity ELSE item.polarity)]

\* st.progress takes a float in [0.0, 1.0] and raises on any other:
\* (avg_polarity + 1) / 2 is in that range exactly when avg_polarity is in [-1, 1]
ProgressInRange(score) == -score.d <= score.n /\ score.n <= score.d

\* lines 160-172: the label, the progress bar, the rows
ShowSentiment ==
    /\ pc = "sentiment"
    /\ IF ProgressInRange(avg_polarity)
       THEN /\ tabs' = [tabs EXCEPT ![ticker].label = get_sentiment_label(avg_polarity),
                                    ![ticker].progress = TRUE,
                                    ![ticker].rows =
                                        [i \in DOMAIN displayed(analyzed_news) |->
                                            Row(displayed(analyzed_news)[i])]]
            /\ pc' = "price"
            /\ UNCHANGED error
       ELSE /\ tabs' = [tabs EXCEPT ![ticker].label = get_sentiment_label(avg_polarity)]
            /\ Raise(ticker, "progress")
    /\ UNCHANGED <<provider, multiselect, custom_ticker, selected_tickers, data, idx,
                   metrics, fig, total_polarity, analyzed_news, avg_polarity, k>>

\* lines 175-182: the candlestick chart, then the next tab
DeepChart ==
    /\ pc = "price"
    /\ IF provider[ticker].fail = "history"
       THEN /\ Raise(ticker, "history")
            /\ UNCHANGED <<tabs, idx>>
       ELSE /\ tabs' = [tabs EXCEPT ![ticker].candlestick = provider[ticker].hist # <<>>]
            /\ IF idx = Len(selected_tickers)
               THEN pc' = "done" /\ idx' = idx
               ELSE pc' = "tab" /\ idx' = idx + 1
            /\ UNCHANGED error
    /\ UNCHANGED <<provider, multiselect, custom_ticker, selected_tickers, data,
                   metrics, fig, total_polarity, analyzed_news, avg_polarity, k>>

Next ==
    \/ Sidebar
    \/ FetchData
    \/ CompareMetrics
    \/ CompareChart
    \/ DeepFundamentals
    \/ DeepNews
    \/ ScoreItem
    \/ ComputeAverage
    \/ ShowSentiment
    \/ DeepChart

Spec == Init /\ [][Next]_vars

----------------------------------------------------------------------------
(* Properties *)

RECURSIVE SumSeq(_)
SumSeq(s) == IF s = <<>> THEN 0 ELSE s[1] + SumSeq(Tail(s))

Polarity(items) == [i \in DOMAIN items |-> items[i].polarity]

Pos(t) == CHOOSE i \in 1..Len(selected_tickers) : selected_tickers[i] = t

\* the class a score has by the strict thresholds 0.1 and -0.1
ClassOf(s) ==
    IF s.n * 10 > s.d THEN "bullish"
    ELSE IF s.n * 10 < -s.d THEN "bearish"
    ELSE "neutral"

ClassOfLabel(l) ==
    CASE l = "BULLISH" -> "bullish" [] l = "BEARISH" -> "bearish"
      [] l = "NEUTRAL" -> "neutral" [] OTHER -> "?"

ClassOfColor(c) ==
    CASE c = "green" -> "bullish" [] c = "red" -> "bearish"
      [] c = "orange" -> "neutral" [] OTHER -> "?"

ClassOfEmoji(e) ==
    CASE e = "green_circle" -> "bullish" [] e = "red_circle" -> "bearish"
      [] e = "yellow_circle" -> "neutral" [] OTHER -> "?"

\* the scores the run has computed so far
Scores == {avg_polarity} \cup {Pol(analyzed_news[i].polarity) : i \in DOMAIN analyzed_news}

\* C1: the label, the color and the news-row emoji of every score are the one
\* class the strict thresholds give (a score of exactly 0.1 or -0.1 is neutral),
\* and a tab whose news list has a single item shows the same class in its label
\* as in the row of that item.
C1_ClassifiersAgree ==
    /\ \A s \in Scores :
          /\ ClassOfLabel(get_sentiment_label(s)) = ClassOf(s)
          /\ ClassOfColor(get_sentiment_color(s)) = ClassOf(s)
          /\ ClassOfEmoji(p_emoji(s)) = ClassOf(s)
          /\ (s.n * 10 = s.d \/ s.n * 10 = -s.d) => get_sentiment_label(s) = "NEUTRAL"
    /\ pc = "price" =>
          /\ tabs[ticker].label = get_sentiment_label(avg_polarity)
          /\ \A i \in DOMAIN tabs[ticker].rows :
                ClassOfEmoji(tabs[ticker].rows[i].emoji)
                    = ClassOf(Pol(analyzed_news[i].polarity))
          /\ Len(analyzed_news) = 1 =>
                ClassOfLabel(tabs[ticker].label) = ClassOfEmoji(tabs[ticker].rows[1].emoji)

\* a single item of polarity exactly 0.1 is shown neutral in the label and in its row
C1_Witness ==
    /\ pc = "price"
    /\ Polarity(analyzed_news) = <<10>>
    /\ tabs[ticker].label = "NEUTRAL"
    /\ tabs[ticker].rows[1].emoji = "yellow_circle"
    /\ get_sentiment_color(avg_polarity) = "orange"

\* C2: once the average of a tab is set, it is the sum of the polarities of the
\* scored items over their count, every item of the news list has been scored, and
\* it lies in [-1, 1] when every polarity does; for an empty or absent list it is 0
\* and the summary is NEUTRAL, orange.
C2_AverageIsMean ==
    pc \in {"sentiment", "price"} =>
        LET news == provider[ticker].news
        IN  IF Truthy(news)
            THEN /\ Len(analyzed_news) = Len(news.items)
                 /\ \A i \in DOMAIN analyzed_news :
                       analyzed_news[i].polarity = news.items[i]
                 /\ avg_polarity.d > 0
                 /\ avg_polarity.n * 100 * Len(analyzed_news)
                        = SumSeq(Polarity(analyzed_news)) * avg_polarity.d
                 /\ (\A i \in DOMAIN analyzed_news :
                        analyzed_news[i].polarity \in -100..100)
                    => (-avg_polarity.d <= avg_polarity.n /\ avg_polarity.n <= avg_polarity.d)
            ELSE /\ analyzed_news = <<>>
                 /\ avg_polarity.n = 0
                 /\ get_sentiment_label(avg_polarity) = "NEUTRAL"
                 /\ get_sentiment_color(avg_polarity) = "orange"
                 /\ pc = "price" => tabs[ticker].label = "NEUTRAL"

\* three items 0.6, 0.15, 0.1 average to 0.85 / 3
C2_Witness ==
    /\ pc = "sentiment"
    /\ Polarity(analyzed_news) = <<60, 15, 10>>
    /\ avg_polarity = [n |-> 85, d |-> 300]

\* the unit the inclusive lower bounds 10^12, 10^9, 10^6 give a magnitude
UnitOf(num) ==
    IF num.hi >= 1000000 THEN "T"
    ELSE IF num.hi >= 1000 THEN "B"
    ELSE IF num.hi >= 1 THEN "M"
    ELSE ""

\* the magnitude divided by its unit, with two decimals
Scaled(num) ==
    CASE UnitOf(num) = "T" -> Fixed2(FALSE, HundredthsT(num))
      [] UnitOf(num) = "B" -> Fixed2(FALSE, HundredthsB(num))
      [] UnitOf(num) = "M" -> Fixed2(FALSE, HundredthsM(num))
      [] OTHER -> ToString(num.lo) \o ".00"

\* worked values at and around the boundaries
Known ==
    (Big(FALSE, 0, 999) :> "$999.00") @@ (Big(FALSE, 0, 999999) :> "$999999.00")
    @@ (Big(FALSE, 1, 0) :> "$1.00M") @@ (Big(FALSE, 999, 999999) :> "$1000.00M")
    @@ (Big(FALSE, 1000, 0) :> "$1.00B") @@ (Big(FALSE, 1500, 0) :> "$1.50B")
    @@ (Big(FALSE, 999999, 999999) :> "$1000.00B") @@ (Big(FALSE, 1000000, 0) :> "$1.00T")
    @@ (Big(FALSE, 2500000, 0) :> "$2.50T") @@ (Big(FALSE, 0, 0) :> "$0.00")

\* the two large numbers of a tab: what the provider gave and what is shown
LargeNumbers(t) ==
    {<<Get(provider[t].info, "marketCap", None), tabs[t].market_cap>>,
     <<Get(provider[t].info, "volume", None), tabs[t].volume>>}

\* C3: a tab shows "N/A" for an absent market cap or volume, and shows a
\* non-negative one divided by the largest of 10^12, 10^9, 10^6 it reaches, with
\* the suffix T, B, M of that unit, or unabbreviated below 10^6.
C3_FormatByUnit ==
    \A t \in AllTickers : tabs[t] # None =>
        \A p \in LargeNumbers(t) :
            IF IsNone(p[1]) THEN p[2] = "N/A"
            ELSE ~p[1].neg =>
                    /\ p[2] = "$" \o Scaled(p[1]) \o UnitOf(p[1])
                    /\ p[1] \in DOMAIN Known => p[2] = Known[p[1]]

\* a market cap of exactly 10^9 is shown as $1.00B
C3_Witness ==
    /\ tabs["TSLA"] # None
    /\ provider["TSLA"].info["marketCap"] = Big(FALSE, 1000, 0)
    /\ tabs["TSLA"].market_cap = "$1.00B"

\* C4: a negative market cap or volume is shown with the unit of its absolute
\* value and its sign kept.
C4_NegativeByMagnitude ==
    \A t \in AllTickers : tabs[t] # None =>
        \A p \in LargeNumbers(t) :
            (~IsNone(p[1]) /\ p[1].neg) =>
                p[2] = "$-" \o Scaled(p[1]) \o UnitOf(p[1])

\* the positions of the script after the comparison section
DeepDive == {"tab", "news", "score", "average", "sentiment", "price", "done"}

\* the chart loop has gone past ticker t
Charted(t) ==
    /\ t \in Range(selected_tickers)
    /\ Len(selected_tickers) > 1
    /\ \/ pc = "chart" /\ Pos(t) < idx
       \/ pc \in DeepDive

\* the metrics loop has gone past ticker t
Measured(t) ==
    /\ t \in Range(selected_tickers)
    /\ Len(selected_tickers) > 1
    /\ \/ pc = "metrics" /\ Pos(t) < idx
       \/ pc = "chart"
       \/ pc \in DeepDive

TracesOf(t) == {i \in DOMAIN fig : fig[i].name = t}

Finite(v) == DOMAIN v = {"n", "d"}

\* C5: a history whose first close is 0 adds no trace to the comparison figure,
\* and no value of any trace is NaN or infinite.
C5_DegenerateGivesNoTrace ==
    /\ \A t \in AllTickers :
          (Charted(t) /\ provider[t].hist # <<>> /\ provider[t].hist[1] = 0)
              => TracesOf(t) = {}
    /\ \A i \in DOMAIN fig : \A j \in DOMAIN fig[i].y : Finite(fig[i].y[j])

\* C6: past the chart loop, a ticker whose history is non-empty with a non-zero
\* first close has one trace, as long as the history and in its order, whose i-th
\* value is (close[i] - close[0]) / close[0] * 100 and whose first value is 0; a
\* ticker whose history is empty has no trace, and no error is raised for it.
C6_NormalizedSeries ==
    \A t \in AllTickers : Charted(t) =>
        LET hist == provider[t].hist
        IN  IF hist = <<>>
            THEN TracesOf(t) = {} /\ error.ticker # t
            ELSE hist[1] # 0 =>
                    /\ Cardinality(TracesOf(t)) = 1
                    /\ \A i \in TracesOf(t) :
                          /\ Len(fig[i].y) = Len(hist)
                          /\ fig[i].x = [j \in 1..Len(hist) |-> j]
                          /\ \A j \in 1..Len(hist) :
                                /\ Finite(fig[i].y[j])
                                /\ fig[i].y[j].d > 0
                                /\ fig[i].y[j].n * hist[1]
                                      = (hist[j] - hist[1]) * 100 * fig[i].y[j].d
                          /\ fig[i].y[1].n = 0

\* closes 8.00, 10.00, 12.50 give 0 %, 25 %, 56.25 %
C6_Witness ==
    /\ pc = "done"
    /\ provider["TSLA"].hist = <<800, 1000, 1250>>
    /\ \E i \in DOMAIN fig :
          /\ fig[i].name = "TSLA"
          /\ fig[i].y = <<[n |-> 0, d |-> 800], [n |-> 20000, d |-> 800],
                          [n |-> 45000, d |-> 800]>>

Failing == {t \in Range(selected_tickers) : provider[t].fail # "none"}

\* C8: when the run has ended and the provider failed for one selected ticker,
\* the error names that ticker and every other selected ticker has its tab and,
\* in comparison mode, its metric and its trace.
C8_OthersComplete ==
    (pc \in {"done", "crashed"} /\ Cardinality(Failing) = 1) =>
        /\ \A t \in Failing : error.ticker = t
        /\ \A t \in Range(selected_tickers) \ Failing :
              /\ tabs[t] # None
              /\ tabs[t].progress
              /\ Len(selected_tickers) > 1 => (metrics[t] # None /\ TracesOf(t) # {})

\* C9: every polarity stored in a scored item, and so the running total, is
\* within [-1, 1] per item.
C9_PolarityClamped ==
    /\ \A i \in DOMAIN analyzed_news : analyzed_news[i].polarity \in -100..100
    /\ pc \in {"score", "average", "sentiment", "price"} =>
          /\ total_polarity <= 100 * Len(analyzed_news)
          /\ total_polarity >= -100 * Len(analyzed_news)

\* C10: the rows of a tab are the first min(5, n) items of the news list in
\* their order, and the label is the class of the mean of all n items.
C10_RowsArePrefix ==
    pc = "price" =>
        LET news == provider[ticker].news
            all  == IF Truthy(news) THEN news.items ELSE <<>>
            rows == tabs[ticker].rows
        IN  /\ Len(rows) = Min(5, Len(all))
            /\ \A i \in DOMAIN rows :
                  /\ rows[i].item = i
                  /\ rows[i].emoji = p_emoji(Pol(all[i]))
                  /\ rows[i].caption = Fixed2(all[i] < 0, IF all[i] < 0 THEN -all[i] ELSE all[i])
            /\ all # <<>> =>
                  tabs[ticker].label
                      = get_sentiment_label(Frac(SumSeq(all), 100 * Len(all)))

\* six items 0, 0, 0, 0, 0.6, 0: the five rows shown average 0.12, bullish, while
\* the label is that of the mean 0.1 of all six, neutral
C10_Witness ==
    /\ pc = "price"
    /\ provider[ticker].news = [items |-> <<0, 0, 0, 0, 60, 0>>]
    /\ Len(tabs[ticker].rows) = 5
    /\ tabs[ticker].label = "NEUTRAL"
    /\ get_sentiment_label(Frac(SumSeq([i \in 1..5 |-> analyzed_news[i].polarity]), 500))
          = "BULLISH"

====
